---- MODULE Spec2Model ----
(***************************************************************************)
(* Model of MeshLab's PluginManager (src/common/plugin_manager.cpp): the   *)
(* load pass over a plugin directory, the registries it fills, the format  *)
(* tables built by fillKnownIOFormats, the two name lookups and the        *)
(* destructor.                                                             *)
(*                                                                         *)
(* A QString is a sequence of atoms.  An extension is a sequence of        *)
(* one-letter atoms, so that toLower acts letter by letter; descriptions   *)
(* and the fixed pieces (" *.", ")") are single atoms.  QObject::tr is     *)
(* taken with no translator installed (it returns its argument).           *)
(*                                                                         *)
(* A module is identified by the file it was loaded from: QPluginLoader    *)
(* hands out one shared root object per file, so a second pass over the    *)
(* same file yields the same pointer.                                      *)
(***************************************************************************)
EXTENDS Integers, Sequences, FiniteSets, TLC

(* Bounds of the model. *)
MaxPasses == 2
MaxDirLen == 3

----------------------------------------------------------------------------
(* The plugin files that may sit in the scanned directory. *)

FAct(text, class, req, pre, post, arity) ==
    [text |-> text, class |-> class, requirements |-> req,
     preConditions |-> pre, postCondition |-> post, arity |-> arity]

GoodAct(text) ==
    FAct(text, "Smoothing", "MM_NONE", "MM_NONE", "MM_VERTCOORD", "SINGLE_MESH")

DAct(text, deco) == [text |-> text, decorationName |-> deco]

Fmt(desc, exts) == [description |-> desc, extensions |-> exts]

Plug(loads, caps, name, fa, da, ea, imp, exp, ras) ==
    [loads |-> loads, caps |-> caps, pluginName |-> name,
     filterActions |-> fa, decorateActions |-> da, editActions |-> ea,
     importFormats |-> imp, exportFormats |-> exp, rasterFormats |-> ras]

PluginDB ==
    ("filter_a" :> Plug(TRUE, {"Filter"}, "A",
        <<GoodAct("Smooth"), GoodAct("Clean")>>, <<>>, <<>>, <<>>, <<>>, <<>>))
 @@ ("filter_b" :> Plug(TRUE, {"Filter", "MeshIO", "RasterIO", "Decorate", "Render"}, "B",
        <<GoodAct("Smooth"),
          FAct("Bad", "Smoothing", "MM_NONE", "MM_NONE", "MM_UNKNOWN", "SINGLE_MESH")>>,
        <<DAct("Bounds", "d3")>>, <<>>,
        <<Fmt("Fmt1", << <<"x","y","z">>, <<"P","L","Y">> >>)>>,
        <<Fmt("Fmt1", << <<"x","y","z">> >>)>>,
        <<Fmt("Img3", << <<"T","I","F">> >>)>>))
 @@ ("filter_c" :> Plug(TRUE, {"Filter", "Decorate", "Render"}, "A",
        <<GoodAct("Smooth"), GoodAct("Smooth")>>,
        <<DAct("Axis", "d1"), DAct("Grid", "d2")>>, <<>>, <<>>, <<>>, <<>>))
 @@ ("filter_d" :> Plug(TRUE, {"Filter"}, "D",
        <<FAct("Inv1", "Generic", "MM_UNKNOWN", "MM_NONE", "MM_VERTCOORD", "SINGLE_MESH"),
          FAct("Inv2", "Smoothing", "MM_UNKNOWN", "MM_NONE", "MM_VERTCOORD", "SINGLE_MESH"),
          FAct("Inv3", "Smoothing", "MM_NONE", "MM_UNKNOWN", "MM_VERTCOORD", "SINGLE_MESH"),
          FAct("Inv4", "Smoothing", "MM_NONE", "MM_NONE", "MM_VERTCOORD", "UNKNOWN_ARITY"),
          GoodAct("Clean")>>,
        <<>>, <<>>, <<>>, <<>>, <<>>))
 @@ ("io_e" :> Plug(TRUE, {"MeshIO", "RasterIO"}, "B",
        <<>>, <<>>, <<>>,
        <<Fmt("Fmt2", << <<"X","Y","Z">> >>),
          Fmt("Fmt3", << <<"o","b","j">>, <<"P","l","y">> >>)>>,
        <<Fmt("Fmt3", << <<"O","B","J">>, <<"x","y","z">> >>)>>,
        <<Fmt("Img1", << <<"P","N","G">>, <<"x","y","z">> >>)>>))
 @@ ("deco_f" :> Plug(TRUE, {"Decorate"}, "F",
        <<>>, <<DAct("Grid", "d2"), DAct("Normals", "d3")>>, <<>>,
        <<>>, <<>>, <<>>))
 @@ ("edit_g" :> Plug(TRUE, {"EditFactory", "MeshIO"}, "G",
        <<>>, <<>>, <<"Select", "Measure">>,
        <<Fmt("Fmt4", << <<"s","t","l">>, <<"O","b","j">> >>)>>, <<>>, <<>>))
 @@ ("raster_h" :> Plug(TRUE, {"RasterIO"}, "H",
        <<>>, <<>>, <<>>, <<>>, <<>>,
        <<Fmt("Img2", << <<"p","n","g">>, <<"J","P","G">> >>)>>))
 @@ ("plain" :> Plug(TRUE, {}, "",
        <<>>, <<>>, <<>>, <<>>, <<>>, <<>>))
 @@ ("broken" :> Plug(FALSE, {}, "",
        <<>>, <<>>, <<>>, <<>>, <<>>, <<>>))

Files == DOMAIN PluginDB

(* std::map<QString, PluginInterface*> iterates its keys in ascending order. *)
NameOrder == <<"A", "B", "D", "F", "G", "H">>

(* Arguments tried by the two name lookups. *)
DecorationNames == {"d1", "d2", "d3", "d9"}
FilterNames == {"Smooth", "Clean", "Bad", "Inv1", "Nope"}

----------------------------------------------------------------------------
(* QString and container helpers. *)

LowerOf ==
    ("A" :> "a") @@ ("B" :> "b") @@ ("C" :> "c") @@ ("D" :> "d") @@ ("E" :> "e")
 @@ ("F" :> "f") @@ ("G" :> "g") @@ ("H" :> "h") @@ ("I" :> "i") @@ ("J" :> "j")
 @@ ("K" :> "k") @@ ("L" :> "l") @@ ("M" :> "m") @@ ("N" :> "n") @@ ("O" :> "o")
 @@ ("P" :> "p") @@ ("Q" :> "q") @@ ("R" :> "r") @@ ("S" :> "s") @@ ("T" :> "t")
 @@ ("U" :> "u") @@ ("V" :> "v") @@ ("W" :> "w") @@ ("X" :> "x") @@ ("Y" :> "y")
 @@ ("Z" :> "z")

(* QString::toLower: every upper-case letter becomes its lower-case letter. *)
toLower(s) ==
    [i \in 1..Len(s) |-> IF s[i] \in DOMAIN LowerOf THEN LowerOf[s[i]] ELSE s[i]]

EmptyMap == <<>>

(* An insert that keeps the item already stored under the key. *)
MapInsert_keepFirst(m, k, v) ==
    [x \in DOMAIN m \cup {k} |-> IF x \in DOMAIN m THEN m[x] ELSE v]

(* QMap::insert: an existing item with the key has its value replaced. *)
MapInsert(m, k, v) == [x \in DOMAIN m \cup {k} |-> IF x = k THEN v ELSE m[x]]

Range(s) == {s[i] : i \in DOMAIN s}

(* Pointers.  A plugin pointer and a QAction pointer have the same shape. *)
NULL == [plugin |-> "", kind |-> "null", idx |-> 0]
PluginPtr(f) == [plugin |-> f, kind |-> "plugin", idx |-> 0]
ActionPtr(f, kind, i) == [plugin |-> f, kind |-> kind, idx |-> i]

NoRet == [op |-> "none", arg |-> "", val |-> NULL]

----------------------------------------------------------------------------
VARIABLES
    entryList,                  \* pluginsDir.entryList(QDir::Files)
    pc, passes, idx, ii,        \* control: position, passes run, loop cursors
    pluginsLoaded,
    filterPlugins, ioMeshPlugins, ioRasterPlugins,
    decoratePlugins, renderPlugins, editPlugins,
    ownerPlug,
    actionFilterMap, actionData,
    decoratorActionList, editActionList,
    allKnowInputMeshFormats, allKnowOutputFormats, allKnownInputRasterFormats,
    inpMeshFilters, outFilters, inpRasterFilters,
    released,                   \* how many times each module was deleted
    ret,                        \* what the last lookup returned
    diag,                       \* the messages written to qDebug and std::cerr
    initCalls,                  \* the calls of initGlobalParameterList(action, defaultGlobal)
    plyPc,                      \* PlyMCPlugin::applyFilter(FP_PLYMC): position
    md,                         \* the meshes of the document: [name, visible]
    mi,                         \* cursor of the loop over md.meshIterator()
    tmpFiles,                   \* the __TMP*.vmi files in the working folder
    MP,                         \* pmc.MP: the mesh file names given to the provider
    OutNameVec,                 \* p.OutNameVec.size() after pmc.Process
    openResult,                 \* par.getBool("openResult")
    ri                          \* cursor of the removal loop

ctl == <<entryList, pc, passes, idx, ii>>
lists == <<pluginsLoaded, filterPlugins, ioMeshPlugins, ioRasterPlugins,
           decoratePlugins, renderPlugins, editPlugins>>
actionRegs == <<actionFilterMap, actionData, decoratorActionList, editActionList>>
formats == <<allKnowInputMeshFormats, allKnowOutputFormats,
             allKnownInputRasterFormats, inpMeshFilters, outFilters,
             inpRasterFilters>>
outs == <<diag, initCalls>>
plyVars == <<plyPc, md, mi, tmpFiles, MP, OutNameVec, openResult, ri>>
managerVars == <<ctl, lists, ownerPlug, actionRegs, formats, released, ret, outs>>
vars == <<managerVars, plyVars>>

(* Directory listings: file names are distinct; the order is the platform's. *)
Listings ==
    {s \in UNION {[1..n -> Files] : n \in 0..MaxDirLen} :
        \A i, j \in DOMAIN s : i # j => s[i] # s[j]}

(* PluginManager::PluginManager(): every container is empty. *)
Init ==
    /\ entryList \in Listings
    /\ pc = "idle" /\ passes = 0 /\ idx = 1 /\ ii = 1
    /\ pluginsLoaded = <<>>
    /\ filterPlugins = <<>> /\ ioMeshPlugins = <<>> /\ ioRasterPlugins = <<>>
    /\ decoratePlugins = <<>> /\ renderPlugins = <<>> /\ editPlugins = <<>>
    /\ ownerPlug = EmptyMap
    /\ actionFilterMap = EmptyMap /\ actionData = EmptyMap
    /\ decoratorActionList = <<>> /\ editActionList = <<>>
    /\ allKnowInputMeshFormats = EmptyMap /\ allKnowOutputFormats = EmptyMap
    /\ allKnownInputRasterFormats = EmptyMap
    /\ inpMeshFilters = <<>> /\ outFilters = <<>> /\ inpRasterFilters = <<>>
    /\ released = [f \in Files |-> 0]
    /\ ret = NoRet
    /\ diag = <<>> /\ initCalls = <<>>
    /\ plyPc = "off" /\ md = <<>> /\ mi = 1 /\ tmpFiles = {} /\ MP = <<>>
    /\ OutNameVec = 0 /\ openResult = FALSE /\ ri = 0

----------------------------------------------------------------------------
(* The load pass: PluginManager::loadPlugins(defaultGlobal, pluginsDirectory). *)

(* One turn of the validation loop: each failed check clears loadFilterOK. *)
checkAction(a, loadFilterOK) ==
    LET ok1 == IF a.class = "Generic" THEN FALSE ELSE loadFilterOK
        ok2 == IF a.requirements = "MM_UNKNOWN" THEN FALSE ELSE ok1
        ok3 == IF a.preConditions = "MM_UNKNOWN" THEN FALSE ELSE ok2
        ok4 == IF a.postCondition = "MM_UNKNOWN" THEN FALSE ELSE ok3
        ok5 == IF a.arity = "UNKNOWN_ARITY" THEN FALSE ELSE ok4
    IN  ok5

RECURSIVE validateLoop(_, _, _)
validateLoop(acts, i, loadFilterOK) ==
    IF i > Len(acts) THEN loadFilterOK
    ELSE validateLoop(acts, i + 1, checkAction(acts[i], loadFilterOK))

(* The flag is assigned, not cleared: only the last action decides. *)
validateFilter_lastOnly(acts) ==
    IF acts = <<>> THEN TRUE ELSE checkAction(acts[Len(acts)], TRUE)

(* bool loadFilterOK = true; for (filterAction : iFilter->actions()) ... *)
validateFilter(acts) == validateLoop(acts, 1, TRUE)

(* The actions are inserted without the setData call. *)
RECURSIVE insertFilterActions_untagged(_, _, _, _)
insertFilterActions_untagged(reg, fileName, acts, i) ==
    IF i > Len(acts) THEN reg
    ELSE insertFilterActions_untagged(
             [map  |-> MapInsert(reg.map, acts[i].text, ActionPtr(fileName, "filter", i)),
              data |-> reg.data],
             fileName, acts, i + 1)

(* for (filterAction : iFilter->actions()) { setData(fileName); insert(text, action) } *)
RECURSIVE insertFilterActions(_, _, _, _)
insertFilterActions(reg, fileName, acts, i) ==
    IF i > Len(acts) THEN reg
    ELSE LET a == ActionPtr(fileName, "filter", i)
         IN  insertFilterActions(
                 [map  |-> MapInsert(reg.map, acts[i].text, a),
                  data |-> MapInsert(reg.data, a, fileName)],
                 fileName, acts, i + 1)

(* The actions of a module taken last to first. *)
actionsOf_reversed(fileName, kind, acts) ==
    [i \in 1..Len(acts) |-> ActionPtr(fileName, kind, Len(acts) + 1 - i)]

(* The actions of one interface of a module, in the module's own order. *)
actionsOf(fileName, kind, acts) ==
    [i \in 1..Len(acts) |-> ActionPtr(fileName, kind, i)]

(* iCommon after the five qobject_casts: the last interface that matched. *)
commonInterface(caps) ==
    IF "Render" \in caps THEN "Render"
    ELSE IF "Decorate" \in caps THEN "Decorate"
    ELSE IF "RasterIO" \in caps THEN "RasterIO"
    ELSE IF "MeshIO" \in caps THEN "MeshIO"
    ELSE IF "Filter" \in caps THEN "Filter"
    ELSE "nullptr"

(* The owner entry is assigned whether or not the name is there. *)
registerOwner_overwrite(owner, fileName, caps, name) ==
    IF "EditFactory" \in caps THEN owner
    ELSE IF commonInterface(caps) # "nullptr"
         THEN MapInsert(owner, name, fileName)
         ELSE owner

(* The owner branch is an if of its own, not the else of the edit branch. *)
registerOwner_noElse(owner, fileName, caps, name) ==
    IF commonInterface(caps) # "nullptr"
    THEN IF name \notin DOMAIN owner
         THEN MapInsert(owner, name, fileName)
         ELSE owner
    ELSE owner

(* A module whose only interface is the filter interface is no owner. *)
registerOwner_noFilter(owner, fileName, caps, name) ==
    IF "EditFactory" \in caps THEN owner
    ELSE IF caps \cap {"MeshIO", "RasterIO", "Decorate", "Render"} # {}
         THEN IF name \notin DOMAIN owner
              THEN MapInsert(owner, name, fileName)
              ELSE owner
         ELSE owner

(* if (iEditFactory) {...} else if (iCommon) { insert unless the name is there } *)
registerOwner(owner, fileName, caps, name) ==
    IF "EditFactory" \in caps THEN owner
    ELSE IF commonInterface(caps) # "nullptr"
         THEN IF name \notin DOMAIN owner
              THEN MapInsert(owner, name, fileName)
              ELSE owner
         ELSE owner

pushIf(list, cond, x) == IF cond THEN Append(list, x) ELSE list

(* Lines 95-104: the directory is listed and the loop starts. *)
LoadPluginsBegin ==
    /\ pc = "idle" /\ passes < MaxPasses
    /\ pc' = "loading" /\ passes' = passes + 1 /\ idx' = 1
    /\ ret' = NoRet
    /\ UNCHANGED <<outs, entryList, ii, lists, ownerPlug, actionRegs, formats, released>>
    /\ UNCHANGED plyVars

(* The messages of one turn of the validation loop, one per failed check. *)
checkDiagnostics(fileName, a) ==
    (IF a.class = "Generic"
     THEN <<[kind |-> "Missing class", file |-> fileName, text |-> a.text]>>
     ELSE <<>>)
    \o (IF a.requirements = "MM_UNKNOWN"
        THEN <<[kind |-> "Missing requirements", file |-> fileName, text |-> a.text]>>
        ELSE <<>>)
    \o (IF a.preConditions = "MM_UNKNOWN"
        THEN <<[kind |-> "Missing preconditions", file |-> fileName, text |-> a.text]>>
        ELSE <<>>)
    \o (IF a.postCondition = "MM_UNKNOWN"
        THEN <<[kind |-> "Missing postcondition", file |-> fileName, text |-> a.text]>>
        ELSE <<>>)
    \o (IF a.arity = "UNKNOWN_ARITY"
        THEN <<[kind |-> "Missing Arity", file |-> fileName, text |-> a.text]>>
        ELSE <<>>)

(* The loop ends at the first action that fails a check. *)
RECURSIVE validateDiagnostics_stopAtFirst(_, _, _)
validateDiagnostics_stopAtFirst(fileName, acts, i) ==
    IF i > Len(acts) THEN <<>>
    ELSE IF checkDiagnostics(fileName, acts[i]) # <<>>
         THEN checkDiagnostics(fileName, acts[i])
         ELSE validateDiagnostics_stopAtFirst(fileName, acts, i + 1)

(* The messages of the whole validation loop (lines 118-140). *)
RECURSIVE validateDiagnostics(_, _, _)
validateDiagnostics(fileName, acts, i) ==
    IF i > Len(acts) THEN <<>>
    ELSE checkDiagnostics(fileName, acts[i])
         \o validateDiagnostics(fileName, acts, i + 1)

(* The name collision is not reported. *)
ownerDiagnostics_silent(owner, fileName, caps, name) == <<>>

(* The warning of the owner-map branch (line 194), when the name is taken. *)
ownerDiagnostics(owner, fileName, caps, name) ==
    IF "EditFactory" \in caps THEN <<>>
    ELSE IF commonInterface(caps) # "nullptr" /\ name \in DOMAIN owner
         THEN <<[kind |-> "already loaded", file |-> fileName, text |-> name]>>
         ELSE <<>>

(* The test of loader.instance() is reversed. *)
loaderInstance_inverted(fileName) == ~PluginDB[fileName].loads

(* The root object is used without a test. *)
loaderInstance_unchecked(fileName) == TRUE

(* QObject *plugin = loader.instance(); if (plugin): the file loads and     *)
(* yields a root object.                                                    *)
loaderInstance(fileName) == PluginDB[fileName].loads

(* A module whose filter actions were rejected is skipped altogether. *)
qobject_cast_skipRejected(plugin, iface) ==
    /\ iface \in plugin.caps
    /\ ("Filter" \in plugin.caps => validateFilter(plugin.filterActions))

(* The casts are an else-if chain: only the first interface is seen. *)
qobject_cast_exclusive(plugin, iface) ==
    LET order == <<"Filter", "MeshIO", "RasterIO", "Decorate", "Render", "EditFactory">>
    IN  /\ iface \in plugin.caps
        /\ \A i, j \in DOMAIN order :
              (order[j] = iface /\ i < j) => order[i] \notin plugin.caps

(* qobject_cast<Interface *>(plugin) is not null. *)
qobject_cast(plugin, iface) == iface \in plugin.caps

(* Lines 111-198: the root object is there and is classified. *)
LoadSuccess(fileName) ==
    LET plugin   == PluginDB[fileName]
        caps     == plugin.caps
        iFilter  == qobject_cast(plugin, "Filter")
        loadFilterOK == validateFilter(plugin.filterActions)
        accepted == iFilter /\ loadFilterOK
        reg      == IF accepted
                    THEN insertFilterActions(
                             [map |-> actionFilterMap, data |-> actionData],
                             fileName, plugin.filterActions, 1)
                    ELSE [map |-> actionFilterMap, data |-> actionData]
        iDecorator   == qobject_cast(plugin, "Decorate")
        iEditFactory == qobject_cast(plugin, "EditFactory")
    IN  /\ pluginsLoaded' = Append(pluginsLoaded, fileName)
        /\ actionFilterMap' = reg.map
        /\ actionData' = reg.data
        /\ filterPlugins' = pushIf(filterPlugins, accepted, fileName)
        /\ ioMeshPlugins' =
               pushIf(ioMeshPlugins, qobject_cast(plugin, "MeshIO"), fileName)
        /\ ioRasterPlugins' =
               pushIf(ioRasterPlugins, qobject_cast(plugin, "RasterIO"), fileName)
        /\ decoratePlugins' = pushIf(decoratePlugins, iDecorator, fileName)
        /\ decoratorActionList' =
               IF iDecorator
               THEN decoratorActionList
                    \o actionsOf(fileName, "decorate", plugin.decorateActions)
               ELSE decoratorActionList
        /\ initCalls' =
               IF iDecorator
               THEN initCalls \o actionsOf(fileName, "decorate", plugin.decorateActions)
               ELSE initCalls
        /\ renderPlugins' =
               pushIf(renderPlugins, qobject_cast(plugin, "Render"), fileName)
        /\ editPlugins' = pushIf(editPlugins, iEditFactory, fileName)
        /\ editActionList' =
               IF iEditFactory
               THEN editActionList \o actionsOf(fileName, "edit", plugin.editActions)
               ELSE editActionList
        /\ ownerPlug' = registerOwner(ownerPlug, fileName, caps, plugin.pluginName)
        /\ diag' = diag
                   \o (IF iFilter
                       THEN validateDiagnostics(fileName, plugin.filterActions, 1)
                       ELSE <<>>)
                   \o ownerDiagnostics(ownerPlug, fileName, caps, plugin.pluginName)
        /\ idx' = idx + 1 /\ pc' = pc

(* The function returns at the first file that does not load. *)
LoadFailure_return(fileName) ==
    /\ diag' = Append(diag, [kind |-> "loader error", file |-> fileName, text |-> ""])
    /\ idx' = idx + 1 /\ pc' = "idle"
    /\ UNCHANGED <<lists, ownerPlug, actionRegs, initCalls>>

(* Lines 200-201: no root object; the loader's error text is written. *)
LoadFailure(fileName) ==
    /\ diag' = Append(diag, [kind |-> "loader error", file |-> fileName, text |-> ""])
    /\ idx' = idx + 1 /\ pc' = pc
    /\ UNCHANGED <<lists, ownerPlug, actionRegs, initCalls>>

(* Lines 105-202: one turn of the loop over the candidate files. *)
LoadCandidate ==
    /\ pc = "loading" /\ idx <= Len(entryList)
    /\ IF loaderInstance(entryList[idx])
       THEN LoadSuccess(entryList[idx])
       ELSE LoadFailure(entryList[idx])
    /\ UNCHANGED <<entryList, passes, ii, formats, released, ret>>
    /\ UNCHANGED plyVars

----------------------------------------------------------------------------
(* The format registries: fillKnownIOFormats and its two helpers. *)

(* Lines 325-332, the body of the loop over one format's extensions:      *)
(* st = [map, all, entry], the merged table, the text for the aggregate     *)
(* entry and the format's own filter entry.                                 *)
meshExtensionStep_overwrite(st, pMeshIOPlugin, extension) ==
    LET currentExtension == toLower(extension)
    IN  [map   |-> MapInsert(st.map, currentExtension, pMeshIOPlugin),
         all   |-> st.all \o <<" *.">> \o currentExtension,
         entry |-> st.entry \o <<" *.">> \o currentExtension]

meshExtensionStep_claimedOnly(st, pMeshIOPlugin, extension) ==
    LET currentExtension == toLower(extension)
        claim == currentExtension \notin DOMAIN st.map
    IN  [map   |-> IF claim
                   THEN MapInsert(st.map, currentExtension, pMeshIOPlugin)
                   ELSE st.map,
         all   |-> IF claim
                   THEN st.all \o <<" *.">> \o currentExtension
                   ELSE st.all,
         entry |-> IF claim
                   THEN st.entry \o <<" *.">> \o currentExtension
                   ELSE st.entry]

(* The aggregate text gets every extension, claimed or not. *)
meshExtensionStep_listAll(st, pMeshIOPlugin, extension) ==
    LET currentExtension == toLower(extension)
        claim == currentExtension \notin DOMAIN st.map
    IN  [map   |-> IF claim
                   THEN MapInsert(st.map, currentExtension, pMeshIOPlugin)
                   ELSE st.map,
         all   |-> st.all \o <<" *.">> \o currentExtension,
         entry |-> st.entry \o <<" *.">> \o currentExtension]

meshExtensionStep(st, pMeshIOPlugin, extension) ==
    LET currentExtension == toLower(extension)
        claim == currentExtension \notin DOMAIN st.map
    IN  [map   |-> IF claim
                   THEN MapInsert(st.map, currentExtension, pMeshIOPlugin)
                   ELSE st.map,
         all   |-> IF claim
                   THEN st.all \o <<" *.">> \o currentExtension
                   ELSE st.all,
         entry |-> st.entry \o <<" *.">> \o currentExtension]

(* for (QString currentExtension : currentFormat.extensions) ... *)
RECURSIVE meshExtensionLoop(_, _, _, _)
meshExtensionLoop(st, pMeshIOPlugin, extensions, i) ==
    IF i > Len(extensions) THEN st
    ELSE meshExtensionLoop(meshExtensionStep(st, pMeshIOPlugin, extensions[i]),
                           pMeshIOPlugin, extensions, i + 1)

(* addPluginMeshFormats(map, formatFilters, pMeshIOPlugin, format):         *)
(* st = [map, filters, all]; all is the caller's allKnownFormatsFilter      *)
(* with the returned text already appended (the caller's +=).               *)
RECURSIVE addPluginMeshFormats(_, _, _, _)
addPluginMeshFormats(st, pMeshIOPlugin, format, i) ==
    IF i > Len(format) THEN st
    ELSE LET currentFormat == format[i]
             r == meshExtensionLoop(
                      [map |-> st.map, all |-> st.all,
                       entry |-> <<currentFormat.description, " (">>],
                      pMeshIOPlugin, currentFormat.extensions, 1)
         IN  addPluginMeshFormats(
                 [map |-> r.map, all |-> r.all,
                  filters |-> Append(st.filters, r.entry \o <<")">>)],
                 pMeshIOPlugin, format, i + 1)

(* Lines 297-304, the same loop body in addPluginRasterFormats. *)
rasterExtensionStep(st, pRasterIOPlugin, extension) ==
    LET currentExtension == toLower(extension)
        claim == currentExtension \notin DOMAIN st.map
    IN  [map   |-> IF claim
                   THEN MapInsert(st.map, currentExtension, pRasterIOPlugin)
                   ELSE st.map,
         all   |-> IF claim
                   THEN st.all \o <<" *.">> \o currentExtension
                   ELSE st.all,
         entry |-> st.entry \o <<" *.">> \o currentExtension]

RECURSIVE rasterExtensionLoop(_, _, _, _)
rasterExtensionLoop(st, pRasterIOPlugin, extensions, i) ==
    IF i > Len(extensions) THEN st
    ELSE rasterExtensionLoop(rasterExtensionStep(st, pRasterIOPlugin, extensions[i]),
                             pRasterIOPlugin, extensions, i + 1)

RECURSIVE addPluginRasterFormats(_, _, _, _)
addPluginRasterFormats(st, pRasterIOPlugin, format, i) ==
    IF i > Len(format) THEN st
    ELSE LET currentFormat == format[i]
             r == rasterExtensionLoop(
                      [map |-> st.map, all |-> st.all,
                       entry |-> <<currentFormat.description, " (">>],
                      pRasterIOPlugin, currentFormat.extensions, 1)
         IN  addPluginRasterFormats(
                 [map |-> r.map, all |-> r.all,
                  filters |-> Append(st.filters, r.entry \o <<")">>)],
                 pRasterIOPlugin, format, i + 1)

(* for (pMeshIOPlugin : ioMeshPlugins) allKnownFormatsFilter += addPluginMeshFormats(..importFormats()) *)
RECURSIVE meshImportLoop(_, _, _)
meshImportLoop(st, plugins, i) ==
    IF i > Len(plugins) THEN st
    ELSE meshImportLoop(
             addPluginMeshFormats(st, plugins[i],
                                  PluginDB[plugins[i]].importFormats, 1),
             plugins, i + 1)

(* for (pMeshIOPlugin : ioMeshPlugins) addPluginMeshFormats(..exportFormats()): the result is dropped *)
RECURSIVE meshExportLoop(_, _, _)
meshExportLoop(st, plugins, i) ==
    IF i > Len(plugins) THEN st
    ELSE meshExportLoop(
             addPluginMeshFormats(st, plugins[i],
                                  PluginDB[plugins[i]].exportFormats, 1),
             plugins, i + 1)

(* The raster loop asks the plugin for its mesh import formats. *)
RECURSIVE rasterImportLoop_meshFormats(_, _, _)
rasterImportLoop_meshFormats(st, plugins, i) ==
    IF i > Len(plugins) THEN st
    ELSE rasterImportLoop_meshFormats(
             addPluginRasterFormats(st, plugins[i],
                                    PluginDB[plugins[i]].importFormats, 1),
             plugins, i + 1)

(* for (pRasterIOPlugin : ioRasterPlugins) allKnownFormatsFilter += addPluginRasterFormats(..importFormats()) *)
RECURSIVE rasterImportLoop(_, _, _)
rasterImportLoop(st, plugins, i) ==
    IF i > Len(plugins) THEN st
    ELSE rasterImportLoop(
             addPluginRasterFormats(st, plugins[i],
                                    PluginDB[plugins[i]].rasterFormats, 1),
             plugins, i + 1)

(* Line 203 (lines 261-282): the pass ends by building the format tables. *)
FillKnownIOFormats ==
    /\ pc = "loading" /\ idx > Len(entryList)
    /\ LET inp == meshImportLoop(
                      [map |-> allKnowInputMeshFormats, filters |-> inpMeshFilters,
                       all |-> <<"All known formats (">>],
                      ioMeshPlugins, 1)
           out == meshExportLoop(
                      [map |-> allKnowOutputFormats, filters |-> outFilters,
                       all |-> <<>>],
                      ioMeshPlugins, 1)
           ras == rasterImportLoop(
                      [map |-> allKnownInputRasterFormats,
                       filters |-> inpRasterFilters,
                       all |-> <<"All known formats (">>],
                      ioRasterPlugins, 1)
       IN  /\ allKnowInputMeshFormats' = inp.map
           /\ inpMeshFilters' = <<inp.all \o <<")">> >> \o inp.filters
           /\ allKnowOutputFormats' = out.map
           /\ outFilters' = out.filters
           /\ allKnownInputRasterFormats' = ras.map
           /\ inpRasterFilters' = <<ras.all \o <<")">> >> \o ras.filters
    /\ pc' = "idle"
    /\ UNCHANGED <<outs, entryList, passes, idx, ii, lists, ownerPlug, actionRegs,
                   released, ret>>
    /\ UNCHANGED plyVars

----------------------------------------------------------------------------
(* The query surface. *)

(* for (ac : tt->actions()) if (name == tt->decorationName(ac)) return tt; *)
RECURSIVE decorationLoop(_, _, _)
decorationLoop(name, acts, j) ==
    IF j > Len(acts) THEN FALSE
    ELSE IF name = acts[j].decorationName THEN TRUE
    ELSE decorationLoop(name, acts, j + 1)

(* The scan keeps going after a match: the last match is returned. *)
RECURSIVE decoratePluginLoop_lastMatch(_, _, _)
decoratePluginLoop_lastMatch(name, plugins, i) ==
    IF i > Len(plugins) THEN NULL
    ELSE LET rest == decoratePluginLoop_lastMatch(name, plugins, i + 1)
         IN  IF rest # NULL THEN rest
             ELSE IF decorationLoop(name, PluginDB[plugins[i]].decorateActions, 1)
                  THEN PluginPtr(plugins[i])
                  ELSE NULL

(* for (tt : decoratePlugins) ...: the plugin returned, NULL when the loops end. *)
RECURSIVE decoratePluginLoop(_, _, _)
decoratePluginLoop(name, plugins, i) ==
    IF i > Len(plugins) THEN NULL
    ELSE IF decorationLoop(name, PluginDB[plugins[i]].decorateActions, 1)
         THEN PluginPtr(plugins[i])
         ELSE decoratePluginLoop(name, plugins, i + 1)

(* getDecoratePlugin(name).  After the loops comes assert(0); return 0: a   *)
(* build with assertions aborts the process, a build with NDEBUG returns 0. *)
GetDecoratePlugin ==
    /\ pc = "idle"
    /\ \E name \in DecorationNames :
         LET tt == decoratePluginLoop(name, decoratePlugins, 1)
         IN  /\ ret' = [op |-> "getDecoratePlugin", arg |-> name, val |-> tt]
             /\ \/ tt # NULL /\ pc' = pc
                \/ tt = NULL /\ pc' = "aborted"
                \/ tt = NULL /\ pc' = pc
    /\ UNCHANGED <<outs, entryList, passes, idx, ii, lists, ownerPlug, actionRegs,
                   formats, released>>
    /\ UNCHANGED plyVars

(* A lookup that ignores the name and answers with some stored action. *)
filterActionLookup_anyEntry(map, name) ==
    IF DOMAIN map = {} THEN NULL ELSE map[CHOOSE k \in DOMAIN map : TRUE]

(* filterAction(name): the value stored under name, nullptr when absent. *)
filterActionLookup(map, name) ==
    IF name \in DOMAIN map THEN map[name] ELSE NULL

FilterAction ==
    /\ pc = "idle"
    /\ \E name \in FilterNames :
         ret' = [op |-> "filterAction", arg |-> name,
                 val |-> filterActionLookup(actionFilterMap, name)]
    /\ UNCHANGED <<outs, ctl, lists, ownerPlug, actionRegs, formats, released>>
    /\ UNCHANGED plyVars

----------------------------------------------------------------------------
(* PluginManager::~PluginManager(). *)

(* The keys of ownerPlug in the order std::map iterates them. *)
ownerKeys(owner) == SelectSeq(NameOrder, LAMBDA n : n \in DOMAIN owner)

(* delete p: the module is released once more. *)
deletePlugin(rel, f) == [rel EXCEPT ![f] = @ + 1]

(* Lines 73-76: four of the capability lists are cleared. *)
DtorClearLists ==
    /\ pc = "idle"
    /\ ioMeshPlugins' = <<>> /\ filterPlugins' = <<>>
    /\ renderPlugins' = <<>> /\ decoratePlugins' = <<>>
    /\ pc' = "dtor_owner" /\ ii' = 1 /\ ret' = NoRet
    /\ UNCHANGED <<outs, entryList, passes, idx, pluginsLoaded, ioRasterPlugins,
                   editPlugins, ownerPlug, actionRegs, formats, released>>
    /\ UNCHANGED plyVars

(* Lines 77-78: for (auto& plugin : ownerPlug) delete plugin.second; *)
DtorDeleteOwner ==
    /\ pc = "dtor_owner" /\ ii <= Len(ownerKeys(ownerPlug))
    /\ released' = deletePlugin(released, ownerPlug[ownerKeys(ownerPlug)[ii]])
    /\ ii' = ii + 1
    /\ UNCHANGED <<outs, entryList, pc, passes, idx, lists, ownerPlug, actionRegs,
                   formats, ret>>
    /\ UNCHANGED plyVars

(* Line 79: ownerPlug.clear(); and the edit loop starts at ii = 0. *)
DtorClearOwner ==
    /\ pc = "dtor_owner" /\ ii > Len(ownerKeys(ownerPlug))
    /\ ownerPlug' = EmptyMap
    /\ pc' = "dtor_edit" /\ ii' = 1
    /\ UNCHANGED <<outs, entryList, passes, idx, lists, actionRegs, formats,
                   released, ret>>
    /\ UNCHANGED plyVars

(* Lines 81-82: delete editPlugins[ii].  Deleting a pointer that was        *)
(* already deleted is undefined: the process goes on or crashes.            *)
DtorDeleteEdit ==
    /\ pc = "dtor_edit" /\ ii <= Len(editPlugins)
    /\ released' = deletePlugin(released, editPlugins[ii])
    /\ ii' = ii + 1
    /\ \/ pc' = pc
       \/ released[editPlugins[ii]] > 0 /\ pc' = "crashed"
    /\ UNCHANGED <<outs, entryList, passes, idx, lists, ownerPlug, actionRegs,
                   formats, ret>>
    /\ UNCHANGED plyVars

(* Line 83: editPlugins.clear(); *)
DtorClearEdit ==
    /\ pc = "dtor_edit" /\ ii > Len(editPlugins)
    /\ editPlugins' = <<>>
    /\ pc' = "dtor_members"
    /\ UNCHANGED <<outs, entryList, passes, idx, ii, pluginsLoaded, filterPlugins,
                   ioMeshPlugins, ioRasterPlugins, decoratePlugins,
                   renderPlugins, ownerPlug, actionRegs, formats, released, ret>>
    /\ UNCHANGED plyVars

(* Line 84: the body ends and the members, the remaining containers, are    *)
(* destroyed.                                                               *)
DtorMembers ==
    /\ pc = "dtor_members"
    /\ pluginsLoaded' = <<>> /\ ioRasterPlugins' = <<>>
    /\ actionFilterMap' = EmptyMap
    /\ decoratorActionList' = <<>> /\ editActionList' = <<>>
    /\ allKnowInputMeshFormats' = EmptyMap /\ allKnowOutputFormats' = EmptyMap
    /\ allKnownInputRasterFormats' = EmptyMap
    /\ inpMeshFilters' = <<>> /\ outFilters' = <<>> /\ inpRasterFilters' = <<>>
    /\ pc' = "destroyed"
    /\ UNCHANGED <<outs, entryList, passes, idx, ii, filterPlugins, ioMeshPlugins,
                   decoratePlugins, renderPlugins, editPlugins, ownerPlug,
                   actionData, released, ret>>
    /\ UNCHANGED plyVars

----------------------------------------------------------------------------
Next ==
    \/ LoadPluginsBegin
    \/ LoadCandidate
    \/ FillKnownIOFormats
    \/ GetDecoratePlugin
    \/ FilterAction
    \/ DtorClearLists
    \/ DtorDeleteOwner
    \/ DtorClearOwner
    \/ DtorDeleteEdit
    \/ DtorClearEdit
    \/ DtorMembers

Spec == Init /\ [][Next]_vars

----------------------------------------------------------------------------
(* PlyMCPlugin::applyFilter, case FP_PLYMC (filter_plymc.cpp). *)

MaxMeshes == 3
MaxOut == 2

MeshNames == {"m1", "m2"}

(* QString("__TMP") + mm.shortName() + ".vmi" *)
mshTmpPath(shortName) == <<"__TMP", shortName, ".vmi">>

Documents ==
    UNION {[1..n -> [name : MeshNames, visible : BOOLEAN]] : n \in 0..MaxMeshes}

(* The call starts on a document and a parameter set; the working folder    *)
(* holds no temporary mesh file; no plugin manager is involved.             *)
PlyInit ==
    /\ entryList = <<>>
    /\ pc = "idle" /\ passes = 0 /\ idx = 1 /\ ii = 1
    /\ pluginsLoaded = <<>>
    /\ filterPlugins = <<>> /\ ioMeshPlugins = <<>> /\ ioRasterPlugins = <<>>
    /\ decoratePlugins = <<>> /\ renderPlugins = <<>> /\ editPlugins = <<>>
    /\ ownerPlug = EmptyMap
    /\ actionFilterMap = EmptyMap /\ actionData = EmptyMap
    /\ decoratorActionList = <<>> /\ editActionList = <<>>
    /\ allKnowInputMeshFormats = EmptyMap /\ allKnowOutputFormats = EmptyMap
    /\ allKnownInputRasterFormats = EmptyMap
    /\ inpMeshFilters = <<>> /\ outFilters = <<>> /\ inpRasterFilters = <<>>
    /\ released = [f \in Files |-> 0]
    /\ ret = NoRet
    /\ diag = <<>> /\ initCalls = <<>>
    /\ plyPc = "start"
    /\ md \in Documents
    /\ openResult \in BOOLEAN
    /\ mi = 1 /\ tmpFiles = {} /\ MP = <<>> /\ OutNameVec = 0 /\ ri = 0

(* Lines 142-147: QTemporaryFile file(...); a folder that is not writable   *)
(* throws before anything is written.                                       *)
PlyCheckFolder ==
    /\ plyPc = "start"
    /\ \/ plyPc' = "loop"
       \/ plyPc' = "thrown"
    /\ UNCHANGED <<md, mi, tmpFiles, MP, OutNameVec, openResult, ri>>
    /\ UNCHANGED managerVars

(* ExporterVMI::Save returned 0: the file is there. *)
saveTmpFile(files, path) == files \cup {path}

(* Lines 168-197, one turn of the loop over the meshes: a visible mesh is   *)
(* saved to its temporary file and the file name given to the provider; a   *)
(* Save that fails (retVal != 0, taken to leave no file) throws.            *)
PlySaveMesh ==
    /\ plyPc = "loop" /\ mi <= Len(md)
    /\ IF ~md[mi].visible
       THEN /\ mi' = mi + 1
            /\ UNCHANGED <<plyPc, tmpFiles, MP>>
       ELSE \/ /\ tmpFiles' = saveTmpFile(tmpFiles, mshTmpPath(md[mi].name))
               /\ MP' = Append(MP, mshTmpPath(md[mi].name))
               /\ mi' = mi + 1
               /\ UNCHANGED plyPc
            \/ /\ plyPc' = "thrown"
               /\ UNCHANGED <<mi, tmpFiles, MP>>
    /\ UNCHANGED <<md, OutNameVec, openResult, ri>>
    /\ UNCHANGED managerVars

(* Lines 199-202: if (pmc.Process(cb) == false) throw MLException(...). *)
PlyProcess ==
    /\ plyPc = "loop" /\ mi > Len(md)
    /\ \/ /\ plyPc' = "thrown"
          /\ UNCHANGED OutNameVec
       \/ /\ plyPc' = "open"
          /\ OutNameVec' \in 1..MaxOut
    /\ UNCHANGED <<md, mi, tmpFiles, MP, openResult, ri>>
    /\ UNCHANGED managerVars

(* Lines 205-219: with openResult every output mesh is added to the document. *)
PlyOpenResult ==
    /\ plyPc = "open"
    /\ md' = IF openResult
             THEN md \o [i \in 1..OutNameVec |-> [name |-> "out", visible |-> TRUE]]
             ELSE md
    /\ plyPc' = "remove" /\ ri' = 0
    /\ UNCHANGED <<mi, tmpFiles, MP, OutNameVec, openResult>>
    /\ UNCHANGED managerVars

(* QFile::remove(path): the file is gone; removing an absent file fails     *)
(* and changes nothing.                                                     *)
removeTmpFile(files, path) == files \ {path}

(* Lines 221-222: for (i < pmc.MP.size()) QFile::remove(pmc.MP.MeshName(i)). *)
PlyRemove ==
    /\ plyPc = "remove" /\ ri < Len(MP)
    /\ tmpFiles' = removeTmpFile(tmpFiles, MP[ri + 1])
    /\ ri' = ri + 1
    /\ UNCHANGED <<plyPc, md, mi, MP, OutNameVec, openResult>>
    /\ UNCHANGED managerVars

(* Line 223: the loop is over, the case breaks and applyFilter returns. *)
PlyReturn ==
    /\ plyPc = "remove" /\ ri >= Len(MP)
    /\ plyPc' = "returned"
    /\ UNCHANGED <<md, mi, tmpFiles, MP, OutNameVec, openResult, ri>>
    /\ UNCHANGED managerVars

PlyNext ==
    \/ PlyCheckFolder
    \/ PlySaveMesh
    \/ PlyProcess
    \/ PlyOpenResult
    \/ PlyRemove
    \/ PlyReturn

PlySpec == PlyInit /\ [][PlyNext]_vars

----------------------------------------------------------------------------
(* Properties. *)

Loaded(f) == f \in Range(pluginsLoaded)

(* A filter action that fails one of the five metadata checks. *)
Malformed(a) ==
    \/ a.class = "Generic"
    \/ a.requirements = "MM_UNKNOWN"
    \/ a.preConditions = "MM_UNKNOWN"
    \/ a.postCondition = "MM_UNKNOWN"
    \/ a.arity = "UNKNOWN_ARITY"

HasMalformedAction(f) ==
    \E i \in DOMAIN PluginDB[f].filterActions : Malformed(PluginDB[f].filterActions[i])

(* C1: all-or-nothing filter validation.  In every state, the name-keyed    *)
(* action registry holds no action of a module one of whose filter actions  *)
(* fails one of the five checks: such a module contributes zero entries,    *)
(* wherever the malformed action sits among its actions.                    *)
C1_AllOrNothing ==
    \A name \in DOMAIN actionFilterMap :
        ~HasMalformedAction(actionFilterMap[name].plugin)

(* A module with the malformed action last, one with it first and a         *)
(* well-formed module have all been processed; only the last one's actions  *)
(* are registered.                                                          *)
C1_Witness ==
    /\ pc = "idle"
    /\ Loaded("filter_a") /\ Loaded("filter_b") /\ Loaded("filter_d")
    /\ DOMAIN actionFilterMap = {"Smooth", "Clean"}

(* The registrations of a display name: position of the module in the       *)
(* processing order, then position of the action in the module.             *)
Registrations(name) ==
    UNION {{<<p, i>> : i \in {i \in DOMAIN PluginDB[pluginsLoaded[p]].filterActions :
                               PluginDB[pluginsLoaded[p]].filterActions[i].text = name}} :
           p \in {p \in DOMAIN pluginsLoaded :
                     /\ "Filter" \in PluginDB[pluginsLoaded[p]].caps
                     /\ ~HasMalformedAction(pluginsLoaded[p])}}

Later(a, b) == a[1] > b[1] \/ (a[1] = b[1] /\ a[2] >= b[2])

(* C2: last registrant wins.  When filterAction(name) has returned and      *)
(* validated filter actions were registered under name, the result is the   *)
(* one registered last: the action of the module processed latest.          *)
C2_LastRegistrantWins ==
    (ret.op = "filterAction" /\ Registrations(ret.arg) # {}) =>
        \E pi \in Registrations(ret.arg) :
            /\ \A qi \in Registrations(ret.arg) : Later(pi, qi)
            /\ ret.val = ActionPtr(pluginsLoaded[pi[1]], "filter", pi[2])

(* Two validated modules registered "Smooth"; the lookup returned the       *)
(* action of the one processed later.                                       *)
C2_Witness ==
    /\ ret.op = "filterAction" /\ ret.arg = "Smooth"
    /\ pluginsLoaded = <<"filter_c", "filter_a">>
    /\ ret.val = ActionPtr("filter_a", "filter", 1)

(* Module f declares an import extension that lower-cases to k. *)
DeclaresImport(f, k) ==
    \E i \in DOMAIN PluginDB[f].importFormats :
        \E j \in DOMAIN PluginDB[f].importFormats[i].extensions :
            toLower(PluginDB[f].importFormats[i].extensions[j]) = k

DeclaredImportKeys ==
    UNION {UNION {{toLower(PluginDB[f].importFormats[i].extensions[j]) :
                      j \in DOMAIN PluginDB[f].importFormats[i].extensions} :
                  i \in DOMAIN PluginDB[f].importFormats} :
           f \in Range(ioMeshPlugins)}

(* C3: first registrant wins.  After fillKnownIOFormats the merged mesh     *)
(* import table has exactly the lower-cased extensions declared by the      *)
(* MeshIO modules, each mapped to the first module of the MeshIO list that  *)
(* declares it in any letter case.                                          *)
C3_FirstRegistrantWins ==
    (pc = "idle" /\ passes >= 1) =>
        /\ DOMAIN allKnowInputMeshFormats = DeclaredImportKeys
        /\ \A k \in DOMAIN allKnowInputMeshFormats :
              \E i \in DOMAIN ioMeshPlugins :
                  /\ allKnowInputMeshFormats[k] = ioMeshPlugins[i]
                  /\ DeclaresImport(ioMeshPlugins[i], k)
                  /\ \A j \in 1..(i - 1) : ~DeclaresImport(ioMeshPlugins[j], k)

(* io_e declares "XYZ" and was processed before filter_b, which declares    *)
(* "xyz": the table maps "xyz" to io_e.                                     *)
C3_Witness ==
    /\ pc = "idle" /\ passes >= 1
    /\ ioMeshPlugins = <<"io_e", "filter_b">>
    /\ allKnowInputMeshFormats[<<"x","y","z">>] = "io_e"

----------------------------------------------------------------------------
(* The text " *.e1 *.e2 ..." of a list of extensions, each lower-cased. *)
RECURSIVE ExtensionText(_)
ExtensionText(exts) ==
    IF exts = <<>> THEN <<>>
    ELSE <<" *.">> \o toLower(Head(exts)) \o ExtensionText(Tail(exts))

(* One filter-string entry per format: "description ( *.e1 *.e2 ...)". *)
FormatEntries(fmts) ==
    [i \in DOMAIN fmts |->
        <<fmts[i].description, " (">> \o ExtensionText(fmts[i].extensions) \o <<")">>]

RECURSIVE ImportEntries(_)
ImportEntries(plugins) ==
    IF plugins = <<>> THEN <<>>
    ELSE FormatEntries(PluginDB[Head(plugins)].importFormats)
         \o ImportEntries(Tail(plugins))

(* C4: per-format filter strings ignore ownership.  The step that builds    *)
(* the format tables appends to the mesh import filter list, after its      *)
(* previous content, exactly one entry per import format of every module    *)
(* of the MeshIO list, in order, and that entry lists every extension of    *)
(* the format, lower-cased and in declared order, whether or not the merged *)
(* table already had an owner for it.                                       *)
C4_FilterStringsIgnoreOwnership ==
    [][(pc = "loading" /\ pc' = "idle") =>
          /\ Len(inpMeshFilters') >= 1
          /\ Tail(inpMeshFilters') = inpMeshFilters \o ImportEntries(ioMeshPlugins)]_vars

(* filter_b claimed "xyz" first; the entry of io_e's format Fmt2 still      *)
(* lists "*.xyz".                                                           *)
C4_Witness ==
    /\ pc = "idle" /\ passes = 1
    /\ ioMeshPlugins = <<"filter_b", "io_e">>
    /\ allKnowInputMeshFormats[<<"x","y","z">>] = "filter_b"
    /\ inpMeshFilters[3] = <<"Fmt2", " (", " *.", "x", "y", "z", ")">>

(* A module that can be an owner-map entry: it is no edit factory and it    *)
(* implements an interface that declares a plugin name.                     *)
Nameable(f) ==
    /\ "EditFactory" \notin PluginDB[f].caps
    /\ PluginDB[f].caps \cap {"Filter", "MeshIO", "RasterIO", "Decorate", "Render"} # {}

(* C5: duplicate unique name.  While the manager is alive, when two         *)
(* distinct modules that are no edit factories were processed and declare   *)
(* the same name, the owner map has that name and maps it to the module     *)
(* processed first under it, and the later module is in the list of every   *)
(* capability it has (the filter list when its actions were accepted).      *)
C5_DuplicateName ==
    (pc \in {"idle", "loading"}) =>
        \A i, j \in DOMAIN pluginsLoaded :
            LET m1 == pluginsLoaded[i]
                m2 == pluginsLoaded[j]
            IN  (/\ i < j /\ m1 # m2
                 /\ Nameable(m1) /\ Nameable(m2)
                 /\ PluginDB[m1].pluginName = PluginDB[m2].pluginName
                 /\ \A k \in 1..(i - 1) :
                       ~(/\ Nameable(pluginsLoaded[k])
                         /\ PluginDB[pluginsLoaded[k]].pluginName = PluginDB[m1].pluginName))
                =>
                /\ PluginDB[m1].pluginName \in DOMAIN ownerPlug
                /\ ownerPlug[PluginDB[m1].pluginName] = m1
                /\ "MeshIO" \in PluginDB[m2].caps => m2 \in Range(ioMeshPlugins)
                /\ "RasterIO" \in PluginDB[m2].caps => m2 \in Range(ioRasterPlugins)
                /\ "Decorate" \in PluginDB[m2].caps => m2 \in Range(decoratePlugins)
                /\ "Render" \in PluginDB[m2].caps => m2 \in Range(renderPlugins)
                /\ ("Filter" \in PluginDB[m2].caps /\ ~HasMalformedAction(m2))
                      => m2 \in Range(filterPlugins)

(* io_e and filter_b both declare the name "B"; io_e came first and owns    *)
(* it, filter_b is still a MeshIO plugin.                                   *)
C5_Witness ==
    /\ pc = "idle"
    /\ pluginsLoaded = <<"io_e", "filter_b">>
    /\ ownerPlug["B"] = "io_e"
    /\ "filter_b" \in Range(ioMeshPlugins)

(* The modules a pass has loaded (the loaded-file list is gone once the     *)
(* manager is destroyed).                                                   *)
EverLoaded ==
    IF passes >= 1 THEN {f \in Range(entryList) : PluginDB[f].loads} ELSE {}

(* C6: teardown releases each module exactly once.  Once the manager is     *)
(* destroyed after at least one complete pass, every module that was loaded *)
(* has been deleted once, neither never nor twice.                          *)
C6_ReleasedExactlyOnce ==
    pc = "destroyed" => \A f \in EverLoaded : released[f] = 1

(* Every module a registry entry refers to. *)
Referenced ==
    Range(ownerPlug) \cup Range(filterPlugins) \cup Range(ioMeshPlugins)
    \cup Range(ioRasterPlugins) \cup Range(decoratePlugins)
    \cup Range(renderPlugins) \cup Range(editPlugins)
    \cup {actionFilterMap[n].plugin : n \in DOMAIN actionFilterMap}
    \cup {decoratorActionList[i].plugin : i \in DOMAIN decoratorActionList}
    \cup {editActionList[i].plugin : i \in DOMAIN editActionList}
    \cup Range(allKnowInputMeshFormats) \cup Range(allKnowOutputFormats)
    \cup Range(allKnownInputRasterFormats)

(* C7: no registry entry outlives its module.  In every state, the steps    *)
(* of the teardown included, every registry entry refers to a module that   *)
(* has not been released.                                                   *)
C7_NoDanglingEntry ==
    \A f \in Referenced : released[f] = 0

(* Some decorate plugin exposes an action with this decoration name. *)
DecorationOf(f, name) ==
    \E i \in DOMAIN PluginDB[f].decorateActions :
        PluginDB[f].decorateActions[i].decorationName = name

(* C8: decoration lookup miss.  When getDecoratePlugin was called with a    *)
(* name that no action of a decorate plugin has, it returned the not-found  *)
(* result and the process was not terminated.                               *)
C8_MissReturnsNotFound ==
    (/\ ret.op = "getDecoratePlugin"
     /\ \A i \in DOMAIN decoratePlugins : ~DecorationOf(decoratePlugins[i], ret.arg))
    => (pc # "aborted" /\ ret.val = NULL)

(* C9: decoration lookup hit.  When getDecoratePlugin was called with a     *)
(* name that some action of a decorate plugin has, it returned the first    *)
(* plugin of the decorate list that has an action with that name.           *)
C9_HitReturnsFirst ==
    (/\ ret.op = "getDecoratePlugin"
     /\ \E i \in DOMAIN decoratePlugins : DecorationOf(decoratePlugins[i], ret.arg))
    => \E i \in DOMAIN decoratePlugins :
          /\ DecorationOf(decoratePlugins[i], ret.arg)
          /\ \A j \in 1..(i - 1) : ~DecorationOf(decoratePlugins[j], ret.arg)
          /\ ret.val = PluginPtr(decoratePlugins[i])
          /\ pc = "idle"

(* deco_f and filter_c both have the decoration "d2"; deco_f is first in    *)
(* the decorate list and is the one returned.                               *)
C9_Witness ==
    /\ ret.op = "getDecoratePlugin" /\ ret.arg = "d2"
    /\ decoratePlugins = <<"deco_f", "filter_c">>
    /\ ret.val = PluginPtr("deco_f")

(* C10: edit factories stay out of the owner map.  The loop turn that       *)
(* processes a module implementing EditFactory appends it to the            *)
(* edit-factory list and leaves the owner map as it was (same size, same    *)
(* entries), whatever else the module implements; no owner-map value is     *)
(* ever such a module.                                                      *)
C10_EditFactoryExcluded ==
    [][(/\ pc = "loading" /\ idx <= Len(entryList)
        /\ PluginDB[entryList[idx]].loads
        /\ "EditFactory" \in PluginDB[entryList[idx]].caps)
       => /\ editPlugins' = Append(editPlugins, entryList[idx])
          /\ Cardinality(DOMAIN ownerPlug') = Cardinality(DOMAIN ownerPlug)
          /\ ownerPlug' = ownerPlug
          /\ \A n \in DOMAIN ownerPlug' :
                "EditFactory" \notin PluginDB[ownerPlug'[n]].caps]_vars

(* edit_g implements EditFactory and MeshIO: it is in both lists and the    *)
(* owner map has no entry for its name.                                     *)
C10_Witness ==
    /\ pc = "idle" /\ passes >= 1
    /\ "edit_g" \in Range(editPlugins) /\ "edit_g" \in Range(ioMeshPlugins)
    /\ "G" \notin DOMAIN ownerPlug
    /\ "edit_g" \notin Range(ownerPlug)

----------------------------------------------------------------------------
(* How often x occurs in the sequence s. *)
Occurrences(s, x) == Cardinality({i \in DOMAIN s : s[i] = x})

(* The messages of the given kinds. *)
Messages(kinds) == {i \in DOMAIN diag : diag[i].kind \in kinds}

(* C11: the load pass always completes and attempts every candidate.  A     *)
(* pass in progress with candidates left can always take its next loop      *)
(* turn, and it has attempted exactly the candidates before its cursor,     *)
(* whatever happened to them: each is in the loaded-file list or left a     *)
(* loader message.  Whenever the manager is back at rest, every candidate   *)
(* of every pass was attempted and every pass built the format registries   *)
(* (one aggregate entry per pass in each import filter list).               *)
C11_PassCompletes ==
    /\ pc = "loading" =>
          /\ idx <= Len(entryList) + 1
          /\ idx <= Len(entryList) => ENABLED LoadCandidate
          /\ Len(pluginsLoaded) + Cardinality(Messages({"loader error"}))
                 = (passes - 1) * Len(entryList) + (idx - 1)
    /\ pc = "idle" =>
          /\ Len(pluginsLoaded) + Cardinality(Messages({"loader error"}))
                 = passes * Len(entryList)
          /\ Len(inpMeshFilters) >= passes
          /\ Len(inpRasterFilters) >= passes

(* A pass over a file that does not load, a module whose filter actions are *)
(* rejected and a module whose name is taken has completed.                 *)
C11_Witness ==
    /\ pc = "idle" /\ passes = 1
    /\ entryList = <<"broken", "filter_b", "io_e">>
    /\ pluginsLoaded = <<"filter_b", "io_e">>
    /\ Len(inpMeshFilters) = 4

(* C12: the loaded-file list.  After one load pass the loaded-file list is  *)
(* the directory listing with the files that do not load left out, in the   *)
(* listing's order: its length is the number of files that load, wherever   *)
(* the other files sit.                                                     *)
C12_LoadedFileList ==
    (pc = "idle" /\ passes = 1) =>
        /\ pluginsLoaded = SelectSeq(entryList, LAMBDA f : PluginDB[f].loads)
        /\ Len(pluginsLoaded) = Cardinality({f \in Range(entryList) : PluginDB[f].loads})

(* A file that does not load sat between two that do. *)
C12_Witness ==
    /\ pc = "idle" /\ passes = 1
    /\ entryList = <<"filter_a", "broken", "plain">>
    /\ pluginsLoaded = <<"filter_a", "plain">>

(* The loop turn in progress processes a module that loads. *)
Processing(f) ==
    /\ pc = "loading" /\ idx <= Len(entryList)
    /\ entryList[idx] = f /\ PluginDB[f].loads

(* C13: validation rejection is confined to filter actions.  The loop turn  *)
(* that processes a filter module with a malformed action registers none of *)
(* its filter actions, and appends the module to the MeshIO, RasterIO,      *)
(* decorate and render lists for exactly the contracts it satisfies, and    *)
(* its decorator actions to the decorator action list, as for any module.   *)
C13_RejectionConfinedToFilter ==
    [][\A f \in Files :
        (Processing(f) /\ "Filter" \in PluginDB[f].caps /\ HasMalformedAction(f)) =>
            /\ filterPlugins' = filterPlugins
            /\ actionFilterMap' = actionFilterMap
            /\ ioMeshPlugins' = IF "MeshIO" \in PluginDB[f].caps
                                THEN Append(ioMeshPlugins, f) ELSE ioMeshPlugins
            /\ ioRasterPlugins' = IF "RasterIO" \in PluginDB[f].caps
                                  THEN Append(ioRasterPlugins, f) ELSE ioRasterPlugins
            /\ decoratePlugins' = IF "Decorate" \in PluginDB[f].caps
                                  THEN Append(decoratePlugins, f) ELSE decoratePlugins
            /\ renderPlugins' = IF "Render" \in PluginDB[f].caps
                                THEN Append(renderPlugins, f) ELSE renderPlugins
            /\ decoratorActionList' =
                   IF "Decorate" \in PluginDB[f].caps
                   THEN decoratorActionList
                        \o [i \in DOMAIN PluginDB[f].decorateActions |->
                               ActionPtr(f, "decorate", i)]
                   ELSE decoratorActionList]_vars

(* filter_b has a malformed filter action: it is no filter plugin, and it   *)
(* is a MeshIO, RasterIO, decorate and render plugin with its decorator     *)
(* action listed.                                                           *)
C13_Witness ==
    /\ pc = "idle"
    /\ "filter_b" \notin Range(filterPlugins)
    /\ "filter_b" \in Range(ioMeshPlugins) /\ "filter_b" \in Range(ioRasterPlugins)
    /\ "filter_b" \in Range(decoratePlugins) /\ "filter_b" \in Range(renderPlugins)
    /\ ActionPtr("filter_b", "decorate", 1) \in Range(decoratorActionList)

(* C14: failed candidates register nothing.  The loop turn for a candidate  *)
(* that does not load or yields no root object leaves the loaded-file list, *)
(* the owner map, every capability list, the action registry and the        *)
(* decorator and edit action lists as they were; it writes one message.     *)
C14_FailedCandidateRegistersNothing ==
    [][(/\ pc = "loading" /\ idx <= Len(entryList)
        /\ ~PluginDB[entryList[idx]].loads)
       => /\ UNCHANGED <<pluginsLoaded, ownerPlug, filterPlugins, ioMeshPlugins,
                        ioRasterPlugins, decoratePlugins, renderPlugins,
                        editPlugins, actionFilterMap, actionData,
                        decoratorActionList, editActionList, initCalls, formats>>
          /\ Len(diag') = Len(diag) + 1
          /\ SubSeq(diag', 1, Len(diag)) = diag]_vars

(* The file that does not load was the second candidate: the pass goes on   *)
(* with what the first one registered.                                      *)
C14_Witness ==
    /\ pc = "loading" /\ idx = 3
    /\ entryList = <<"filter_a", "broken", "io_e">>
    /\ pluginsLoaded = <<"filter_a">>
    /\ diag # <<>> /\ diag[Len(diag)].file = "broken"

(* The list of formats has an extension that lower-cases to k. *)
DeclaresIn(fmts, k) ==
    \E i \in DOMAIN fmts : \E j \in DOMAIN fmts[i].extensions :
        toLower(fmts[i].extensions[j]) = k

KeysOf(fmts) ==
    UNION {{toLower(fmts[i].extensions[j]) : j \in DOMAIN fmts[i].extensions} :
           i \in DOMAIN fmts}

(* The table holds the extensions the plugins of the list declare, each     *)
(* owned by the first plugin of the list that declares it.                  *)
FirstWinsTable(table, plugins, fmtsOf(_)) ==
    /\ DOMAIN table = UNION {KeysOf(fmtsOf(plugins[i])) : i \in DOMAIN plugins}
    /\ \A k \in DOMAIN table :
          \E i \in DOMAIN plugins :
              /\ table[k] = plugins[i]
              /\ DeclaresIn(fmtsOf(plugins[i]), k)
              /\ \A j \in 1..(i - 1) : ~DeclaresIn(fmtsOf(plugins[j]), k)

RasterFormatsOf(f) == PluginDB[f].rasterFormats
ExportFormatsOf(f) == PluginDB[f].exportFormats

RECURSIVE FlattenEntries(_)
FlattenEntries(fmtLists) ==
    IF fmtLists = <<>> THEN <<>>
    ELSE FormatEntries(Head(fmtLists)) \o FlattenEntries(Tail(fmtLists))

EntriesOf(plugins, fmtsOf(_)) ==
    FlattenEntries([i \in DOMAIN plugins |-> fmtsOf(plugins[i])])

(* C15: mesh and raster format tables never interact.  After the format     *)
(* registries are built, the raster import table is decided by the RasterIO *)
(* list and its plugins' raster formats alone, and the mesh export table by *)
(* the MeshIO list and its plugins' export formats alone (first plugin of   *)
(* the list wins), whatever the mesh import table holds; after the first    *)
(* pass the raster filter list (after its aggregate entry) and the export   *)
(* filter list hold the entries of those formats only.                      *)
C15_MeshAndRasterSeparate ==
    (pc = "idle" /\ passes >= 1) =>
        /\ FirstWinsTable(allKnownInputRasterFormats, ioRasterPlugins, RasterFormatsOf)
        /\ FirstWinsTable(allKnowOutputFormats, ioMeshPlugins, ExportFormatsOf)
        /\ passes = 1 =>
              /\ inpRasterFilters # <<>>
              /\ Tail(inpRasterFilters) = EntriesOf(ioRasterPlugins, RasterFormatsOf)
              /\ outFilters = EntriesOf(ioMeshPlugins, ExportFormatsOf)

(* "xyz" is owned by filter_b in the mesh import table and by io_e in the   *)
(* raster table; "obj" by edit_g in the mesh import table and by io_e in    *)
(* the mesh export table.                                                   *)
C15_Witness ==
    /\ pc = "idle" /\ passes = 1
    /\ entryList = <<"edit_g", "filter_b", "io_e">>
    /\ allKnowInputMeshFormats[<<"x","y","z">>] = "filter_b"
    /\ allKnownInputRasterFormats[<<"x","y","z">>] = "io_e"
    /\ allKnowInputMeshFormats[<<"o","b","j">>] = "edit_g"
    /\ allKnowOutputFormats[<<"o","b","j">>] = "io_e"

ValidationKinds ==
    {"Missing class", "Missing requirements", "Missing preconditions",
     "Missing postcondition", "Missing Arity"}

(* The load attempts so far that found a file that does not load. *)
FailedAttempts ==
    LET perPass == Cardinality({i \in DOMAIN entryList : ~PluginDB[entryList[i]].loads})
        thisPass == Cardinality({i \in 1..(idx - 1) : ~PluginDB[entryList[i]].loads})
    IN  IF pc = "loading" THEN (passes - 1) * perPass + thisPass
        ELSE passes * perPass

(* The owner-map insertions that were rejected: every processing of a       *)
(* module that can be an owner either made an entry or collided.            *)
NameCollisions ==
    Cardinality({i \in DOMAIN pluginsLoaded : Nameable(pluginsLoaded[i])})
    - Cardinality(DOMAIN ownerPlug)

(* The extensions a MeshIO plugin declares for import although an earlier   *)
(* plugin of the list declares them: plugin, format and extension position. *)
ImportConflicts ==
    UNION {UNION {{<<i, a, b>> :
                      b \in {b \in DOMAIN PluginDB[ioMeshPlugins[i]].importFormats[a].extensions :
                                \E j \in 1..(i - 1) :
                                    DeclaresIn(PluginDB[ioMeshPlugins[j]].importFormats,
                                               toLower(PluginDB[ioMeshPlugins[i]].importFormats[a].extensions[b]))}} :
                  a \in DOMAIN PluginDB[ioMeshPlugins[i]].importFormats} :
           i \in DOMAIN ioMeshPlugins}

(* C16 as stated: after a load pass the messages that are no validation     *)
(* messages are one per candidate that failed to load, one per owner-map    *)
(* name collision and one per extension conflict.                           *)
C16_OneMessagePerConflict ==
    (pc = "idle" /\ passes = 1) =>
        Len(diag) - Cardinality(Messages(ValidationKinds))
            = FailedAttempts + NameCollisions + Cardinality(ImportConflicts)

(* C16, amended: while the manager is alive, the loader messages are one    *)
(* per candidate that failed to load, the name warnings are one per         *)
(* owner-map name collision, and there is no message of any other kind      *)
(* beside the validation messages: an extension conflict writes none.       *)
C16_LoadAndNameDiagnostics ==
    (pc \in {"idle", "loading"}) =>
        /\ Cardinality(Messages({"loader error"})) = FailedAttempts
        /\ Cardinality(Messages({"already loaded"})) = NameCollisions
        /\ Len(diag) - Cardinality(Messages(ValidationKinds))
               = FailedAttempts + NameCollisions

(* One file failed to load, io_e's name was taken by filter_b, and io_e     *)
(* declared extensions filter_b had claimed: there are a loader message, a  *)
(* validation message and a name warning, three in all.                     *)
C16_Witness ==
    /\ pc = "idle" /\ passes = 1
    /\ entryList = <<"broken", "filter_b", "io_e">>
    /\ ImportConflicts # {}
    /\ Len(diag) = 3
    /\ diag[1].kind = "loader error" /\ diag[3].kind = "already loaded"

Checks == {"class", "requirements", "preConditions", "postCondition", "arity"}

Violates(a, c) ==
    \/ c = "class" /\ a.class = "Generic"
    \/ c = "requirements" /\ a.requirements = "MM_UNKNOWN"
    \/ c = "preConditions" /\ a.preConditions = "MM_UNKNOWN"
    \/ c = "postCondition" /\ a.postCondition = "MM_UNKNOWN"
    \/ c = "arity" /\ a.arity = "UNKNOWN_ARITY"

ViolatedPairs(f) ==
    {ac \in (DOMAIN PluginDB[f].filterActions) \X Checks :
        Violates(PluginDB[f].filterActions[ac[1]], ac[2])}

(* C17: validation diagnostics.  The loop turn that processes a filter      *)
(* module writes as many validation messages as there are violated          *)
(* (action, check) pairs over all its actions and the five checks, all of   *)
(* them about that module; checking goes on after a violation.              *)
C17_OneMessagePerViolation ==
    [][\A f \in Files :
        (Processing(f) /\ "Filter" \in PluginDB[f].caps) =>
            LET new == {i \in DOMAIN diag' : i > Len(diag) /\ diag'[i].kind \in ValidationKinds}
            IN  /\ Cardinality(new) = Cardinality(ViolatedPairs(f))
                /\ \A i \in new : diag'[i].file = f]_vars

(* filter_d has a first action that fails two checks and three more that    *)
(* fail one each: five messages.                                            *)
C17_Witness ==
    /\ pc = "idle" /\ passes = 1
    /\ entryList = <<"filter_d">>
    /\ Cardinality(Messages(ValidationKinds)) = 5
    /\ diag[2].text = "Inv1" /\ diag[5].text = "Inv4"

(* C18: filter name lookup.  A call of filterAction leaves the manager      *)
(* running and the action registry as it was; for a name that is no key of  *)
(* the registry the result is null, for a key it is the action stored under *)
(* it, which is a filter action of that name.                               *)
C18_FilterActionLookup ==
    [][(ret'.op = "filterAction" /\ pc = "idle") =>
          /\ pc' = "idle"
          /\ actionFilterMap' = actionFilterMap
          /\ actionData' = actionData
          /\ IF ret'.arg \in DOMAIN actionFilterMap
             THEN /\ ret'.val = actionFilterMap[ret'.arg]
                  /\ ret'.val.kind = "filter"
                  /\ PluginDB[ret'.val.plugin].filterActions[ret'.val.idx].text = ret'.arg
             ELSE ret'.val = NULL]_vars

(* A miss on a registry that is not empty: "Bad" is an action of filter_b,  *)
(* which was loaded and rejected, while "Smooth" is registered.             *)
C18_Witness ==
    /\ pc = "idle"
    /\ ret.op = "filterAction" /\ ret.arg = "Bad" /\ ret.val = NULL
    /\ Loaded("filter_b")
    /\ "Smooth" \in DOMAIN actionFilterMap

(* The actions of the given kind of the first n processed modules that      *)
(* satisfy the contract, module after module, each in its own order.        *)
RECURSIVE FlatActions(_, _, _)
FlatActions(n, contract, kind) ==
    IF n = 0 THEN <<>>
    ELSE LET f == pluginsLoaded[n]
             own == IF kind = "decorate" THEN PluginDB[f].decorateActions
                    ELSE PluginDB[f].editActions
         IN  FlatActions(n - 1, contract, kind)
             \o (IF contract \in PluginDB[f].caps
                 THEN [i \in DOMAIN own |-> [plugin |-> f, kind |-> kind, idx |-> i]]
                 ELSE <<>>)

(* C19: decorator action list order and initialisation.  While the manager  *)
(* is alive the decorator action list is the concatenation, in processing   *)
(* order, of the decorate modules' actions in their own order; each of      *)
(* them was initialised from the baseline once per processing of its        *)
(* module; the edit actions form a separate list built the same way, and no *)
(* edit action is in the decorator list.                                    *)
C19_DecoratorListOrder ==
    (pc \in {"idle", "loading"}) =>
        /\ decoratorActionList = FlatActions(Len(pluginsLoaded), "Decorate", "decorate")
        /\ \A i \in DOMAIN decoratorActionList :
               Occurrences(initCalls, decoratorActionList[i])
                   = Occurrences(pluginsLoaded, decoratorActionList[i].plugin)
        /\ Len(initCalls) = Len(decoratorActionList)
        /\ editActionList = FlatActions(Len(pluginsLoaded), "EditFactory", "edit")
        /\ Range(decoratorActionList) \cap Range(editActionList) = {}
        /\ \A i \in DOMAIN decoratorActionList : decoratorActionList[i].kind # "edit"

(* Two decorate modules around an edit factory. *)
C19_Witness ==
    /\ pc = "idle" /\ passes = 1
    /\ entryList = <<"filter_c", "edit_g", "filter_b">>
    /\ decoratorActionList = <<ActionPtr("filter_c", "decorate", 1),
                               ActionPtr("filter_c", "decorate", 2),
                               ActionPtr("filter_b", "decorate", 1)>>
    /\ initCalls = decoratorActionList
    /\ Len(editActionList) = 2

(* C20: classification is independent per contract and per module.  While   *)
(* the manager is alive, a module is in the MeshIO, RasterIO, decorate,     *)
(* render and edit-factory list once per processing if it satisfies that    *)
(* contract and not at all otherwise, whatever the other candidates are.    *)
C20_ClassificationIndependent ==
    (pc \in {"idle", "loading"}) =>
        \A f \in Files :
            LET n == Occurrences(pluginsLoaded, f)
                member(list, contract) ==
                    Occurrences(list, f) = IF contract \in PluginDB[f].caps THEN n ELSE 0
            IN  /\ member(ioMeshPlugins, "MeshIO")
                /\ member(ioRasterPlugins, "RasterIO")
                /\ member(decoratePlugins, "Decorate")
                /\ member(renderPlugins, "Render")
                /\ member(editPlugins, "EditFactory")

(* filter_b satisfies four of the contracts and is in the four lists, next  *)
(* to candidates that share some of them.                                   *)
C20_Witness ==
    /\ pc = "idle" /\ passes = 1
    /\ entryList = <<"io_e", "filter_b", "filter_c">>
    /\ ioMeshPlugins = <<"io_e", "filter_b">>
    /\ ioRasterPlugins = <<"io_e", "filter_b">>
    /\ decoratePlugins = <<"filter_b", "filter_c">>
    /\ renderPlugins = <<"filter_b", "filter_c">>
    /\ editPlugins = <<>>

(* The extensions of a list of formats, lower-cased, in declared order. *)
RECURSIVE ExtensionsOfFormats(_)
ExtensionsOfFormats(fmts) ==
    IF fmts = <<>> THEN <<>>
    ELSE [j \in DOMAIN Head(fmts).extensions |-> toLower(Head(fmts).extensions[j])]
         \o ExtensionsOfFormats(Tail(fmts))

RECURSIVE ExtensionsOfLists(_)
ExtensionsOfLists(fmtLists) ==
    IF fmtLists = <<>> THEN <<>>
    ELSE ExtensionsOfFormats(Head(fmtLists)) \o ExtensionsOfLists(Tail(fmtLists))

(* The positions of a sequence that hold a value for the first time. *)
FirstPositions(s) == {i \in DOMAIN s : \A j \in 1..(i - 1) : s[j] # s[i]}

(* The extensions in the order they are claimed: each at its first          *)
(* declaration, later declarations dropped.                                 *)
ClaimOrder(plugins, fmtsOf(_)) ==
    LET all == ExtensionsOfLists([i \in DOMAIN plugins |-> fmtsOf(plugins[i])])
        keep(i) == i \in FirstPositions(all)
        RECURSIVE pick(_)
        pick(i) == IF i > Len(all) THEN <<>>
                   ELSE (IF keep(i) THEN <<all[i]>> ELSE <<>>) \o pick(i + 1)
    IN  pick(1)

(* "All known formats ( *.e1 *.e2 ...)" for a sequence of extensions. *)
RECURSIVE AggregateText(_)
AggregateText(exts) ==
    IF exts = <<>> THEN <<>>
    ELSE <<" *.">> \o Head(exts) \o AggregateText(Tail(exts))

AggregateEntry(exts) == <<"All known formats (">> \o AggregateText(exts) \o <<")">>

ImportFormatsOf(f) == PluginDB[f].importFormats

(* The entry is the aggregate of the table: it lists the claim order, which *)
(* holds every key of the table, each once.                                 *)
AggregateOf(entry, table, plugins, fmtsOf(_)) ==
    LET order == ClaimOrder(plugins, fmtsOf)
    IN  /\ entry = AggregateEntry(order)
        /\ Range(order) = DOMAIN table
        /\ Len(order) = Cardinality(DOMAIN table)

(* C21: the aggregate "All known formats" entry.  After the format build    *)
(* that ends the first load pass, the first mesh import filter string is    *)
(* the aggregate entry: it lists every key of the mesh import table once,   *)
(* in the order the extensions were claimed, and no extension a second      *)
(* time when a later format declares it again.  The same holds for the      *)
(* raster import filter list and the raster table.                          *)
C21_AggregateEntry ==
    (pc = "idle" /\ passes = 1) =>
        /\ inpMeshFilters # <<>>
        /\ AggregateOf(inpMeshFilters[1], allKnowInputMeshFormats,
                       ioMeshPlugins, ImportFormatsOf)
        /\ inpRasterFilters # <<>>
        /\ AggregateOf(inpRasterFilters[1], allKnownInputRasterFormats,
                       ioRasterPlugins, RasterFormatsOf)

(* filter_b claims xyz and ply, io_e declares XYZ, obj and Ply: the         *)
(* aggregate lists xyz, ply, obj.                                           *)
C21_Witness ==
    /\ pc = "idle" /\ passes = 1
    /\ entryList = <<"filter_b", "io_e">>
    /\ inpMeshFilters[1] = <<"All known formats (", " *.", "x", "y", "z",
                             " *.", "p", "l", "y", " *.", "o", "b", "j", ")">>
    /\ Cardinality(DOMAIN allKnowInputMeshFormats) = 3

(* The modules of the directory that load and satisfy the contract, in      *)
(* directory order: the list a single pass builds for the contract.         *)
OnePassList(contract) ==
    SelectSeq(entryList,
              LAMBDA f : PluginDB[f].loads /\ contract \in PluginDB[f].caps)

NoRepeat(s) == \A i, j \in DOMAIN s : s[i] = s[j] => i = j

(* C22: re-invoking the load pass is idempotent.  After any number of       *)
(* complete passes over the unchanged directory the lists are what one      *)
(* pass builds: the loaded-file list holds the loadable files once, each    *)
(* capability list the modules of its contract once, the action lists no    *)
(* action twice, and each import filter list is one aggregate entry, that   *)
(* of its table, followed by one entry per declared format.                 *)
C22_ReloadIdempotent ==
    (pc = "idle" /\ passes >= 1) =>
        /\ pluginsLoaded = SelectSeq(entryList, LAMBDA f : PluginDB[f].loads)
        /\ filterPlugins = SelectSeq(OnePassList("Filter"),
                                     LAMBDA f : ~HasMalformedAction(f))
        /\ ioMeshPlugins = OnePassList("MeshIO")
        /\ ioRasterPlugins = OnePassList("RasterIO")
        /\ decoratePlugins = OnePassList("Decorate")
        /\ renderPlugins = OnePassList("Render")
        /\ editPlugins = OnePassList("EditFactory")
        /\ NoRepeat(decoratorActionList) /\ NoRepeat(editActionList)
        /\ inpMeshFilters =
               <<AggregateEntry(ClaimOrder(OnePassList("MeshIO"), ImportFormatsOf))>>
               \o EntriesOf(OnePassList("MeshIO"), ImportFormatsOf)
        /\ inpRasterFilters =
               <<AggregateEntry(ClaimOrder(OnePassList("RasterIO"), RasterFormatsOf))>>
               \o EntriesOf(OnePassList("RasterIO"), RasterFormatsOf)

(* Some module processed before the first processing of f was inserted     *)
(* under f's declared name: it can be an owner and declares that name (the  *)
(* first such module made the entry).                                       *)
NameTakenBefore(f) ==
    \E i \in DOMAIN pluginsLoaded :
        /\ pluginsLoaded[i] = f
        /\ \A k \in 1..(i - 1) : pluginsLoaded[k] # f
        /\ \E k \in 1..(i - 1) :
               /\ Nameable(pluginsLoaded[k])
               /\ PluginDB[pluginsLoaded[k]].pluginName = PluginDB[f].pluginName

(* C23: owner-map membership.  While the manager is alive, a processed      *)
(* module is a value of the owner map exactly when it is no edit factory,   *)
(* satisfies one of Filter, MeshIO, RasterIO, Decorate and Render, and no   *)
(* module processed before it was inserted under its declared name, whether *)
(* its filter actions were accepted or not; and every key is the declared   *)
(* name of the module it maps to.                                           *)
C23_OwnerMapMembership ==
    (pc \in {"idle", "loading"}) =>
        /\ \A f \in Range(pluginsLoaded) :
               (f \in Range(ownerPlug)) <=> (Nameable(f) /\ ~NameTakenBefore(f))
        /\ Range(ownerPlug) \subseteq Range(pluginsLoaded)
        /\ \A k \in DOMAIN ownerPlug : PluginDB[ownerPlug[k]].pluginName = k

(* filter_d is a filter module whose actions were rejected and it owns its  *)
(* name; io_e owns "B" and filter_b, processed later, is no value.          *)
C23_Witness ==
    /\ pc = "idle" /\ passes = 1
    /\ entryList = <<"filter_d", "io_e", "filter_b">>
    /\ filterPlugins = <<>>
    /\ DOMAIN ownerPlug = {"D", "B"}
    /\ ownerPlug["D"] = "filter_d" /\ ownerPlug["B"] = "io_e"

(* C24: action-registry consistency.  In every state reached by load        *)
(* passes, every entry of the action registry is stored under the display   *)
(* text of its action, the action is tagged with the file name of the       *)
(* module that exposes it, that module is in the filter-plugin list, and    *)
(* every action of every module of the filter-plugin list passes the five   *)
(* checks.                                                                  *)
C24_RegistryConsistent ==
    (pc \in {"idle", "loading"}) =>
        /\ \A n \in DOMAIN actionFilterMap :
               LET a == actionFilterMap[n]
               IN  /\ a.kind = "filter"
                   /\ a.idx \in DOMAIN PluginDB[a.plugin].filterActions
                   /\ PluginDB[a.plugin].filterActions[a.idx].text = n
                   /\ a \in DOMAIN actionData
                   /\ actionData[a] = a.plugin
                   /\ a.plugin \in Range(filterPlugins)
        /\ \A f \in Range(filterPlugins) :
               \A i \in DOMAIN PluginDB[f].filterActions :
                   \A c \in Checks : ~Violates(PluginDB[f].filterActions[i], c)

(* filter_a's two actions are registered and tagged; filter_b, which has a  *)
(* malformed action, was processed and is not in the filter list.           *)
C24_Witness ==
    /\ pc = "idle" /\ passes = 1
    /\ entryList = <<"filter_b", "filter_a">>
    /\ filterPlugins = <<"filter_a">>
    /\ DOMAIN actionFilterMap = {"Smooth", "Clean"}
    /\ actionData[actionFilterMap["Clean"]] = "filter_a"

(* C25: temporary-file cleanup of the surface reconstruction filter.  When  *)
(* applyFilter(FP_PLYMC) has finished, by returning or by throwing, no      *)
(* temporary mesh file it wrote is left in the working folder.              *)
C25_TempFilesRemoved ==
    plyPc \in {"returned", "thrown"} => tmpFiles = {}

====
